---- MODULE Spec2Model ----
(***************************************************************************)
(* Caption/hashtag endpoints of fyp-captions: five request handlers        *)
(*   "edge"     src/api/generate-captions-edge.js                          *)
(*   "fewshot"  src/api/generate-captions.js, first handler (few-shot)     *)
(*   "timeout"  src/api/generate-captions.js, second handler (timeout)     *)
(*   "part000"  src/unnamed/part_000                                       *)
(*   "part001"  src/unnamed/part_001                                       *)
(* One request is followed from its arrival to its response.  Every        *)
(* action is the handler code that runs between two awaits.  ConcSpec      *)
(* follows several invocations of the timeout handler side by side.        *)
(*                                                                         *)
(* Data.  A JS value is a record with a tag t: "undef", "null", "bool",    *)
(* "num", "str", "arr", "obj".  A number k/Den is [t |-> "num", v |-> k].   *)
(* A string is a sequence of one-character strings (literals of the code   *)
(* that are never inspected character by character are one element).       *)
(* An object is a record of JS values; a missing property reads "undef".   *)
(***************************************************************************)
EXTENDS Integers, Sequences, FiniteSets, TLC

VARIABLES variant, env, req, pc, calls, attempt, timer, aborted, elapsed,
          loc, prompt, upstream, response, rnd, text, parsedSafe, parsedRescue,
          pools, invs

hvars == <<variant, env, req, pc, calls, attempt, timer, aborted, elapsed,
           loc, prompt, upstream, response, rnd>>

pvars == <<text, parsedSafe, parsedRescue>>

\* pools: the module-level arrays BROAD, MID and CAT of the timeout variant's
\* file.  invs: the invocations of the timeout handler that run side by side,
\* each with its own locals (ConcSpec).
cvars == <<pools, invs>>

vars == <<hvars, pvars, cvars>>

(* ------------------------------ bounds -------------------------------- *)
Den == 2
TickMs == 8000
MaxElapsed == 16000
MaxAffix == 2
MaxRequests == 2

(* --------------------------- JS values -------------------------------- *)
Undef == [t |-> "undef"]
Null == [t |-> "null"]
Bool(b) == [t |-> "bool", v |-> b]
Num(k) == [t |-> "num", v |-> k]
Whole(n) == [t |-> "num", v |-> n * Den]
Str(s) == [t |-> "str", v |-> s]
Arr(a) == [t |-> "arr", v |-> a]
Obj(o) == [t |-> "obj", v |-> o]
NaN == [t |-> "nan"]

Get(j, f) == IF j.t = "obj" /\ f \in DOMAIN j.v THEN j.v[f] ELSE Undef

Digits == <<"0", "1", "2", "3", "4", "5", "6", "7", "8", "9">>

IsDigit(c) == \E i \in 1..Len(Digits) : Digits[i] = c

DigitVal(c) == (CHOOSE i \in 1..Len(Digits) : Digits[i] = c) - 1

IsWs(c) == c \in {" ", "\n", "\t"}

IsLower(c) == c \in {"a", "b", "c", "d", "e", "f", "g", "h", "i", "j", "k", "l", "m",
                     "n", "o", "p", "q", "r", "s", "t", "u", "v", "w", "x", "y", "z"}

UpperMap == [A |-> "a", B |-> "b", C |-> "c", D |-> "d", E |-> "e", F |-> "f", G |-> "g", H |-> "h", I |-> "i", J |-> "j", K |-> "k", L |-> "l", M |-> "m", N |-> "n", O |-> "o", P |-> "p", Q |-> "q", R |-> "r", S |-> "s", T |-> "t", U |-> "u", V |-> "v", W |-> "w", X |-> "x", Y |-> "y", Z |-> "z"]

IsUpper(c) == c \in DOMAIN UpperMap

toLowerCase(s) == [i \in 1..Len(s) |-> IF IsUpper(s[i]) THEN UpperMap[s[i]] ELSE s[i]]

\* s.trim(): from the first to the last character that is not white space
trim(s) == IF \A i \in 1..Len(s) : IsWs(s[i]) THEN <<>>
           ELSE SubSeq(s, CHOOSE i \in 1..Len(s) : ~IsWs(s[i]) /\ \A j \in 1..(i - 1) : IsWs(s[j]),
                          CHOOSE i \in 1..Len(s) : ~IsWs(s[i]) /\ \A j \in (i + 1)..Len(s) : IsWs(s[j]))

RECURSIVE JoinStr(_, _)
JoinStr(ss, sep) == IF ss = <<>> THEN <<>>
                    ELSE IF Len(ss) = 1 THEN ss[1]
                    ELSE ss[1] \o sep \o JoinStr(Tail(ss), sep)

RECURSIVE String(_)
String(j) == CASE j.t = "str" -> j.v
                 [] j.t = "undef" -> <<"u", "n", "d", "e", "f", "i", "n", "e", "d">>
                 [] j.t = "null" -> <<"n", "u", "l", "l">>
                 [] j.t = "bool" -> IF j.v THEN <<"t", "r", "u", "e">> ELSE <<"f", "a", "l", "s", "e">>
                 [] j.t = "num" -> IF j.v % Den = 0 /\ j.v \div Den \in 0..9 THEN <<Digits[(j.v \div Den) + 1]>>
                                   ELSE IF j.v % Den = 0 /\ j.v \div Den \in 10..99
                                        THEN <<Digits[((j.v \div Den) \div 10) + 1], Digits[((j.v \div Den) % 10) + 1]>>
                                   ELSE <<"<number>">>
                 [] j.t = "arr" -> JoinStr([i \in 1..Len(j.v) |->
                                       IF j.v[i].t \in {"null", "undef"} THEN <<>> ELSE String(j.v[i])], <<",">>)
                 [] OTHER -> <<"[", "o", "b", "j", "e", "c", "t", " ", "O", "b", "j", "e", "c", "t", "]">>

StringToNumber(s) == LET u == trim(s) IN
                     IF u = <<>> THEN Whole(0)
                     ELSE IF \A i \in 1..Len(u) : IsDigit(u[i])
                          THEN IF Len(u) = 1 THEN Whole(DigitVal(u[1]))
                               ELSE Whole(10 * DigitVal(u[1]) + DigitVal(u[2]))
                     ELSE NaN

Number(j) == CASE j.t = "num" -> j
               [] j.t = "null" -> Whole(0)
               [] j.t = "bool" -> IF j.v THEN Whole(1) ELSE Whole(0)
               [] j.t = "str" -> StringToNumber(j.v)
               [] j.t = "arr" -> StringToNumber(String(j))
               [] OTHER -> NaN

Truthy(j) == CASE j.t \in {"undef", "null", "nan"} -> FALSE
               [] j.t = "bool" -> j.v
               [] j.t = "num" -> j.v # 0
               [] j.t = "str" -> j.v # <<>>
               [] OTHER -> TRUE

Or(j, d) == IF Truthy(j) THEN j ELSE d

MathMin(a, b) == IF a.v <= b.v THEN a ELSE b

MathMax(a, b) == IF a.v >= b.v THEN a ELSE b

Floor(n) == n.v \div Den

Ceil(k, d) == (k + d - 1) \div d

slice(a, n) == SubSeq(a, 1, IF Floor(n) < Len(a) THEN Floor(n) ELSE Len(a))

(* ------------------------- completion text ----------------------------- *)
(* A completion text is a sequence of tokens: the two braces, a run of     *)
(* prose without braces, white space, a code fence, the word json, the     *)
(* members of an object ("a":1,...) and a JSON value that is no object.    *)
LB == [k |-> "{"]
RB == [k |-> "}"]
PROSE == [k |-> "prose"]
WS == [k |-> "ws"]
FENCE == [k |-> "fence"]
JSONWORD == [k |-> "json"]
Members(o) == [k |-> "members", v |-> o]
Value(j) == [k |-> "value", v |-> j]

ModelFields == {"captions", "hashtags", "combined", "list", "notes"}

NoFields == [f \in ModelFields |-> Undef]

With(o, f, j) == [o EXCEPT ![f] = j]

EmptyObj == Obj(NoFields)

Threw == [ok |-> FALSE, v |-> Undef]

Returned(j) == [ok |-> TRUE, v |-> j]

dropWs(s) == SelectSeq(s, LAMBDA x : x # WS)

\* JSON.parse: white space between the tokens of the JSON grammar is skipped;
\* anything but one value throws.
JSONparse(s) == LET u == dropWs(s) IN
                IF Len(u) = 1 /\ u[1].k = "value" THEN Returned(u[1].v)
                ELSE IF Len(u) = 2 /\ u[1] = LB /\ u[2] = RB THEN Returned(EmptyObj)
                ELSE IF Len(u) = 3 /\ u[1] = LB /\ u[2].k = "members" /\ u[3] = RB
                     THEN Returned(Obj(u[2].v))
                ELSE Threw

FirstLB(s) == IF \E i \in 1..Len(s) : s[i] = LB
              THEN CHOOSE i \in 1..Len(s) : s[i] = LB /\ \A j \in 1..(i - 1) : s[j] # LB
              ELSE 0

\* s.match(/\{[\s\S]*\}$/): from the first "{" to the end of a text that ends in "}".
matchToEnd(s) == IF FirstLB(s) > 0 /\ s[Len(s)] = RB
                 THEN [m |-> TRUE, v |-> SubSeq(s, FirstLB(s), Len(s))]
                 ELSE [m |-> FALSE, v |-> <<>>]

FenceEnds(s) == {e \in 1..Len(s) : /\ s[e] = FENCE
                                   /\ \E r \in (FirstLB(s) + 1)..(e - 1) :
                                         /\ s[r] = RB
                                         /\ \A w \in (r + 1)..(e - 1) : s[w] = WS}

\* s.match(/\{[\s\S]*\}\s*FENCE/): from the first "{" to the last "}" that
\* is followed, after white space only, by a fence.
matchToFence(s) == IF FirstLB(s) > 0 /\ FenceEnds(s) # {}
                   THEN [m |-> TRUE,
                         v |-> SubSeq(s, FirstLB(s), CHOOSE e \in FenceEnds(s) : \A x \in FenceEnds(s) : x <= e)]
                   ELSE [m |-> FALSE, v |-> <<>>]

RECURSIVE stripFences(_)
\* .replace(/FENCEjson|FENCE/g, empty), FENCE being three backquotes
stripFences(s) == IF s = <<>> THEN <<>>
                  ELSE IF Head(s) = FENCE /\ Len(s) > 1 /\ s[2] = JSONWORD THEN stripFences(Tail(Tail(s)))
                  ELSE IF Head(s) = FENCE THEN stripFences(Tail(s))
                  ELSE <<Head(s)>> \o stripFences(Tail(s))

safeParseJSON(s) == LET match == matchToEnd(s)
                        json == IF match.m THEN match.v ELSE s
                        obj == JSONparse(json)
                    IN IF obj.ok /\ Truthy(obj.v) /\ obj.v.t \in {"obj", "arr"} THEN obj.v ELSE EmptyObj

rescueJSON(s) == LET m == IF matchToEnd(s).m THEN matchToEnd(s) ELSE matchToFence(s)
                     r == JSONparse(IF m.m THEN stripFences(m.v) ELSE s)
                 IN IF r.ok THEN r.v ELSE Null

(* ------------------- Fallback Generator (timeout variant) -------------- *)
RandDen == 100

\* Math.random(): the p-th draw of the request's random stream, as r/RandDen.
Rand(tape, p) == tape[(p % Len(tape)) + 1]

BROAD == <<<<"f", "y", "p">>,
      <<"t", "i", "k", "t", "o", "k", "s", "h", "o", "p">>,
      <<"t", "i", "k", "t", "o", "k", "m", "a", "d", "e", "m", "e", "b", "u", "y", "i", "t">>,
      <<"v", "i", "r", "a", "l">>>>

MID == <<<<"r", "e", "v", "i", "e", "w">>,
      <<"b", "e", "f", "o", "r", "e", "a", "f", "t", "e", "r">>,
      <<"u", "n", "b", "o", "x", "i", "n", "g">>,
      <<"a", "s", "m", "r">>>>

CAT == [skincare |-> <<<<"s", "k", "i", "n", "c", "a", "r", "e">>,
      <<"b", "a", "r", "r", "i", "e", "r", "r", "e", "p", "a", "i", "r">>,
      <<"d", "e", "r", "m", "t", "i", "p", "s">>>>,
        kitchen |-> <<<<"k", "i", "t", "c", "h", "e", "n">>,
      <<"m", "e", "a", "l", "p", "r", "e", "p">>,
      <<"k", "i", "t", "c", "h", "e", "n", "h", "a", "c", "k", "s">>,
      <<"h", "o", "m", "e", "c", "o", "o", "k", "i", "n", "g">>>>]

asArr(v) == IF v.t = "arr" THEN v.v ELSE IF Truthy(v) THEN <<v>> ELSE <<>>

RECURSIVE slugChars(_)
slugChars(s) == IF s = <<>> THEN <<>>
                ELSE IF Head(s) = "&" THEN <<"a", "n", "d">> \o slugChars(Tail(s))
                ELSE IF IsLower(Head(s)) \/ IsDigit(Head(s)) THEN <<Head(s)>> \o slugChars(Tail(s))
                ELSE slugChars(Tail(s))

\* slug: String(s||"") lower-cased, & to and, all but a-z 0-9 removed.
slug(j) == slugChars(toLowerCase(String(Or(j, Str(<<>>)))))

IsWordChar(c) == IsLower(c) \/ IsUpper(c) \/ IsDigit(c) \/ c = "_"

RECURSIVE splitNonWord(_, _)
\* s.split(/\W+/), cur being the piece read so far.
splitNonWord(s, cur) ==
    IF s = <<>> THEN <<cur>>
    ELSE IF IsWordChar(Head(s)) THEN splitNonWord(Tail(s), Append(cur, Head(s)))
    ELSE IF Len(s) > 1 /\ ~IsWordChar(s[2]) THEN splitNonWord(Tail(s), cur)
    ELSE <<cur>> \o splitNonWord(Tail(s), <<>>)

Contains(seq, x) == \E i \in 1..Len(seq) : seq[i] = x

SetAdd(seq, x) == IF Contains(seq, x) THEN seq ELSE Append(seq, x)

RECURSIVE Uniq(_, _)
Uniq(seq, acc) == IF seq = <<>> THEN acc ELSE Uniq(Tail(seq), SetAdd(acc, Head(seq)))

RECURSIVE keepTerms(_)
keepTerms(ts) == IF ts = <<>> THEN <<>>
                 ELSE IF Len(Head(ts)) > 2 /\ Len(Head(ts)) < 28 THEN <<Head(ts)>> \o keepTerms(Tail(ts))
                 ELSE keepTerms(Tail(ts))

RemoveAt(seq, i) == SubSeq(seq, 1, i - 1) \o SubSeq(seq, i + 1, Len(seq))

RandIndex(len, tape, p) == ((Rand(tape, p) * len) \div RandDen) + 1

RECURSIVE take(_, _, _, _)
\* take(pool, n): n draws without replacement, each at floor(random * length).
take(pool, n, tape, p) ==
    IF n <= 0 \/ pool = <<>> THEN <<>>
    ELSE <<pool[RandIndex(Len(pool), tape, p)]>>
         \o take(RemoveAt(pool, RandIndex(Len(pool), tape, p)), n - 1, tape, p + 1)

\* the number of draws take(pool, n) makes
draws(pool, n) == IF n <= 0 THEN 0 ELSE IF n < Len(pool) THEN n ELSE Len(pool)

RECURSIVE addSuffixes(_, _, _, _)
\* terms.forEach: with probability 0.35 the term plus tips or hack joins niche.
addSuffixes(terms, niche, tape, p) ==
    IF terms = <<>> THEN [out |-> niche, p |-> p]
    ELSE IF Rand(tape, p) * 100 < 35 * RandDen
         THEN addSuffixes(Tail(terms),
                          SetAdd(niche, Head(terms) \o (IF Rand(tape, p + 1) * 2 < RandDen
                                                        THEN <<"t", "i", "p", "s">> ELSE <<"h", "a", "c", "k">>)),
                          tape, p + 2)
         ELSE addSuffixes(Tail(terms), niche, tape, p + 1)

RECURSIVE uniqTags(_, _, _, _)
\* the loop over picks: slug, skip empty and seen, push # + w, stop at HN.
uniqStep(w, rest, seen, uniq, HN) ==
    IF w = <<>> \/ Contains(seen, w) THEN uniqTags(rest, seen, uniq, HN)
    ELSE IF (Len(uniq) + 1) * Den >= HN.v THEN Append(uniq, <<"#">> \o w)
    ELSE uniqTags(rest, Append(seen, w), Append(uniq, <<"#">> \o w), HN)

uniqTags(picks, seen, uniq, HN) ==
    IF picks = <<>> THEN uniq ELSE uniqStep(slug(Str(Head(picks))), Tail(picks), seen, uniq, HN)

\* terms: the words of product and audience and the benefits and pains, each
\* slugged, those of 3 to 27 characters kept.
termsOf(product, audience, benefits, pains) ==
    keepTerms([i \in 1..Len(product) |-> slug(Str(product[i]))]
              \o [i \in 1..Len(audience) |-> slug(Str(audience[i]))]
              \o [i \in 1..Len(benefits) |-> slug(benefits[i])]
              \o [i \in 1..Len(pains) |-> slug(pains[i])])

categoryGuess(terms) ==
    IF Contains(terms, <<"s", "k", "i", "n">>) \/ Contains(terms, <<"s", "e", "r", "u", "m">>) THEN "skincare"
    ELSE IF Contains(terms, <<"k", "i", "t", "c", "h", "e", "n">>) \/ Contains(terms, <<"c", "o", "o", "k">>) THEN "kitchen"
    ELSE ""

\* picks: take(BROAD, ceil(HN*0.3)), take(MID, ceil(HN*0.25)), take(cat, ceil(HN*0.2)),
\* take([...niche], HN), the draws of each following those of the one before.
picksOf(niche, cat, HN, tape, p, n1, n2, n3) ==
    take(BROAD, n1, tape, p)
    \o take(MID, n2, tape, p + draws(BROAD, n1))
    \o take(cat, n3, tape, p + draws(BROAD, n1) + draws(MID, n2))
    \o take(niche, Ceil(HN.v, Den), tape, p + draws(BROAD, n1) + draws(MID, n2) + draws(cat, n3))

tagsOf(niche, cat, HN, tape) ==
    slice(uniqTags(picksOf(niche.out, cat, HN, tape, niche.p,
                           Ceil(HN.v * 3, 10 * Den), Ceil(HN.v, 4 * Den), Ceil(HN.v, 5 * Den)),
                   <<>>, <<>>, HN), HN)

\* niche is new Set(terms) with the suffixed terms; cat is CAT[categoryGuess] || []
nicheTags(terms, HN, tape, p) ==
    tagsOf(addSuffixes(terms, Uniq(terms, <<>>), tape, p),
           IF categoryGuess(terms) \in DOMAIN CAT THEN CAT[categoryGuess(terms)] ELSE <<>>, HN, tape)

quickHashtags(product, audience, benefits, pains, HN, tape, p) ==
    nicheTags(termsOf(splitNonWord(String(product), <<>>), splitNonWord(String(audience), <<>>),
                      asArr(benefits), asArr(pains)), HN, tape, p)

\* leftBy with the copy forgotten: the picks are spliced out of the caller's array
leftBySpliced(pool, picked) == SelectSeq(pool, LAMBDA x : ~Contains(picked, x))

\* The array handed to take(pool, n), after the call.  take rebinds its
\* parameter to a copy (pool=[...pool]) and splices the copy, so the caller's
\* array keeps every element.
leftBy(pool, picked) == pool

\* BROAD, MID and CAT after quickHashtags has run on the pools ps: the three
\* calls of take that are handed a module-level array, each with its n and its
\* place in the random stream (the draws of addSuffixes come first).
poolsAfter(ps, terms, HN, tape, p) ==
    LET q == addSuffixes(terms, Uniq(terms, <<>>), tape, p).p
        n1 == Ceil(HN.v * 3, 10 * Den)
        n2 == Ceil(HN.v, 4 * Den)
        guess == categoryGuess(terms)
    IN [BROAD |-> leftBy(ps.BROAD, take(ps.BROAD, n1, tape, q)),
        MID |-> leftBy(ps.MID, take(ps.MID, n2, tape, q + draws(ps.BROAD, n1))),
        CAT |-> IF guess \in DOMAIN ps.CAT
                THEN [ps.CAT EXCEPT ![guess] = leftBy(@, take(@, Ceil(HN.v, 5 * Den), tape,
                                                              q + draws(ps.BROAD, n1) + draws(ps.MID, n2)))]
                ELSE ps.CAT]

\* .replace(/\s+/g, ' '): every run of white space becomes one space
collapseWs(s) ==
    LET marked == [i \in 1..Len(s) |-> [c |-> IF IsWs(s[i]) THEN " " ELSE s[i],
                                        keep |-> ~(IsWs(s[i]) /\ i < Len(s) /\ IsWs(s[i + 1]))]]
        kept == SelectSeq(marked, LAMBDA x : x.keep)
    IN [i \in 1..Len(kept) |-> kept[i].c]

hooks(benefit, pain) ==
    << <<"o", "k", " ", "r", "e", "a", "l", " ", "t", "a", "l", "k", " ", "emdash", " ">> \o benefit \o <<".">>,
       <<"n", "o", "t", " ", "m", "e", " ", "f", "i", "n", "a", "l", "l", "y", " ", "f", "i", "x", "i", "n", "g", " ">> \o pain \o <<"ellipsis">>,
       benefit \o <<" ", "w", "i", "t", "h", " ", "z", "e", "r", "o", " ", "f", "u", "s", "s", ".">>,
       <<"i", "f", " ">> \o pain \o <<" ", "i", "s", " ", "y", "o", "u", "r", " ", "l", "i", "f", "e", ",", " ", "w", "a", "t", "c", "h", " ", "t", "h", "i", "s", ".">>,
       <<"t", "h", "i", "s", " ", "i", "s", " ", "t", "h", "e", " ", "s", "h", "o", "r", "t", "c", "u", "t", " ", "t", "o", " ">> \o benefit \o <<".">> >>

ctas == <<<<"t", "a", "p", " ", "f", "o", "r", " ", "t", "h", "e", " ", "r", "e", "c", "e", "i", "p", "t", "s", " ", "arrow">>,
      <<"s", "a", "v", "e", " ", "t", "h", "i", "s", " ", "f", "o", "r", " ", "l", "a", "t", "e", "r", ".">>,
      <<"w", "a", "n", "t", " ", "t", "h", "e", " ", "s", "t", "e", "p", "s", "?", " ", "t", "a", "p", " ", "t", "h", "r", "o", "u", "g", "h", ".">>,
      <<"s", "h", "a", "r", "i", "n", "g", " ", "i", "n", " ", "c", "a", "s", "e", " ", "y", "o", "u", " ", "n", "e", "e", "d", " ", "i", "t", " ", "t", "o", "o", ".">>>>

pick(arr, tape, p) == arr[RandIndex(Len(arr), tape, p)]

fallbackCaption(product, benefit, pain, tape, p) ==
    trim(collapseWs(pick(hooks(benefit, pain), tape, p) \o <<" ">>
                    \o (IF Truthy(product) THEN String(product) \o <<" ", "j", "u", "s", "t", " ", "h", "e", "l", "p", "e", "d", " ", "m", "e", " ", "g", "e", "t", " ", "t", "h", "e", "r", "e", ".">>
                        ELSE <<"t", "h", "i", "s", " ", "j", "u", "s", "t", " ", "h", "e", "l", "p", "e", "d", " ", "m", "e", " ", "g", "e", "t", " ", "t", "h", "e", "r", "e", ".">>)
                    \o <<" ">> \o pick(ctas, tape, p + 1)))

firstOr(a, dflt) == String(IF a # <<>> /\ Truthy(a[1]) THEN a[1] ELSE Str(dflt))

fallbackResult(caps, tags) ==
    [combined |-> caps[1].v \o <<"\n">> \o JoinStr(tags, <<" ">>),
     captions |-> caps,
     hashtags |-> [i \in 1..Len(tags) |-> Str(tags[i])]]

fallbackCaptions(product, benefit, pain, N, tape) ==
    [i \in 1..Floor(N) |-> Str(fallbackCaption(product, benefit, pain, tape, 2 * (i - 1)))]

fallbackGenerate(product, audience, benefits, pains, N, HN, tape) ==
    fallbackResult(fallbackCaptions(product,
                                    firstOr(asArr(benefits), <<"b", "e", "t", "t", "e", "r", " ", "r", "e", "s", "u", "l", "t", "s", " ", "w", "i", "t", "h", " ", "l", "e", "s", "s", " ", "e", "f", "f", "o", "r", "t">>),
                                    firstOr(asArr(pains), <<"d", "o", "i", "n", "g", " ", "t", "h", "i", "s", " ", "t", "h", "e", " ", "h", "a", "r", "d", " ", "w", "a", "y">>), N, tape),
                   quickHashtags(product, audience, benefits, pains, HN, tape, 2 * Floor(N)))

(* ------------------------------ responses ------------------------------ *)
\* What the handler returned: the status, whether the body is JSON text (a
\* null body is not), and the fields of the body.
Response(status, json, kind, error, from, combined, captions, hashtags, list) ==
    [status |-> status, json |-> json, kind |-> kind, error |-> error, from |-> from,
     combined |-> combined, captions |-> captions, hashtags |-> hashtags, list |-> list]

NoResponse == Response(0, FALSE, "none", "", "", Undef, <<>>, <<>>, <<>>)

NullBody(status) == Response(status, FALSE, "nobody", "", "", Undef, <<>>, <<>>, <<>>)

ErrorBody(status, msg) == Response(status, TRUE, "error", msg, "", Undef, <<>>, <<>>, <<>>)

ResultBody(from, combined, captions, hashtags) ==
    Response(200, TRUE, "result", "", from, combined, captions, hashtags, <<>>)

FallbackBody(fb, from) == ResultBody(from, Str(fb.combined), fb.captions, fb.hashtags)

(* ------------------------- the state of a request ---------------------- *)
NoLoc == [N |-> NaN, HN |-> NaN, product |-> Undef, audience |-> Undef,
          benefits |-> Undef, pains |-> Undef]

NoPrompt == [alts |-> NaN, hashtags |-> NaN, model |-> ""]

Idle == [ok |-> FALSE, data |-> [k |-> "none", text |-> <<>>]]

St == [pc |-> pc, calls |-> calls, attempt |-> attempt, timer |-> timer,
       loc |-> loc, prompt |-> prompt, upstream |-> upstream, response |-> response, rnd |-> rnd,
       pools |-> pools]

Respond(st, r) == [st EXCEPT !.pc = "done", !.response = r]

\* An exception that leaves the handler: the promise it returned rejects.
Escape(st) == [st EXCEPT !.pc = "threw"]

\* fetch(OPENAI_URL, {method: "POST", ...}): one upstream POST is sent.
Fetch(st, l, p) == [st EXCEPT !.pc = "fetch", !.calls = @ + 1, !.loc = l, !.prompt = p]

OPENAI_TIMEOUT_MS == 8000

DefaultModel == "gpt-4o-mini"

\* body.f with the default of the destructuring pattern (applied to undefined only).
Field(body, f, d) == IF Get(body, f).t = "undef" THEN d ELSE Get(body, f)

\* clamp with the upper limit forgotten: Math.max(lo, Number(count) || dflt)
clampNoUpper(lo, hi, dflt, count) == MathMax(Whole(lo), Or(Number(count), Whole(dflt)))

\* Math.max(lo, Math.min(hi, Number(count) || dflt))
clamp(lo, hi, dflt, count) ==
    MathMax(Whole(lo), MathMin(Whole(hi), Or(Number(count), Whole(dflt))))

\* data?.choices?.[0]?.message?.content || '{}'
contentOf(data) == IF data.k = "content" /\ data.text # <<>> THEN data.text ELSE <<LB, RB>>

filterBoolean(a) == SelectSeq(a, Truthy)

\* arr.join(sep): null and undefined entries give the empty string.
join(a, sep) == JoinStr([i \in 1..Len(a) |-> IF a[i].t \in {"null", "undef"} THEN <<>> ELSE String(a[i])], sep)

CanRead(j) == j.t \notin {"null", "undef"}

\* cutList with the slice to n entries forgotten
cutListUncut(parsed, f, n) ==
    IF Get(parsed, f).t = "arr" THEN filterBoolean(Get(parsed, f).v) ELSE <<>>

\* Array.isArray(parsed.f) ? parsed.f.filter(Boolean) : [], cut to n entries.
cutList(parsed, f, n) ==
    IF Get(parsed, f).t = "arr" THEN slice(filterBoolean(Get(parsed, f).v), n) ELSE <<>>

\* combinedOf with a space where the code puts the line break
combinedOfSpace(parsed, captions, hashtags) ==
    LET given == IF Get(parsed, "combined").t = "str" THEN trim(Get(parsed, "combined").v) ELSE <<>>
        line == trim(join(hashtags, <<" ">>))
    IN IF given = <<>> /\ captions # <<>>
       THEN IF line # <<>> THEN Str(String(captions[1]) \o <<" ">> \o line) ELSE captions[1]
       ELSE Str(given)

\* the combined text of the edge and timeout variants
combinedOf(parsed, captions, hashtags) ==
    LET given == IF Get(parsed, "combined").t = "str" THEN trim(Get(parsed, "combined").v) ELSE <<>>
        line == trim(join(hashtags, <<" ">>))
    IN IF given = <<>> /\ captions # <<>>
       THEN IF line # <<>> THEN Str(String(captions[1]) \o <<"\n">> \o line) ELSE captions[1]
       ELSE Str(given)

(* -------------------- generate-captions-edge.js ------------------------ *)
edgeStart(st, rq, e) ==
    IF rq.method = "OPTIONS" THEN Respond(st, NullBody(200))
    ELSE IF rq.method # "POST" THEN Respond(st, ErrorBody(405, "Method Not Allowed"))
    ELSE IF ~e.key THEN Respond(st, ErrorBody(500, "Missing OPENAI_API_KEY"))
    ELSE LET parsedBody == IF rq.body.t = "unparseable" THEN Obj(<<>>) ELSE rq.body
             body == Or(parsedBody, Obj(<<>>))
             N == clamp(2, 8, 6, Field(body, "count", Whole(8)))
             HN == clamp(6, 12, 8, Field(body, "hashCount", Whole(8)))
         IN Fetch(st, [N |-> N, HN |-> HN,
                       product |-> Field(body, "product", Str(<<>>)),
                       audience |-> Field(body, "audience", Str(<<>>)),
                       benefits |-> Field(body, "benefits", Arr(<<>>)),
                       pains |-> Field(body, "pains", Arr(<<>>))],
                  [alts |-> N, hashtags |-> HN, model |-> DefaultModel])

edgeHeaders(st, ok) == [st EXCEPT !.pc = IF ok THEN "body" ELSE "errtext", !.upstream.ok = ok]

edgeErrText(st) == Respond(st, ErrorBody(500, "OpenAI request failed"))

edgeCatch(st) == Respond(st, ErrorBody(500, "Server error"))

edgeBody(st, data) ==
    IF data.k = "notjson" THEN edgeCatch(st)
    ELSE LET p == JSONparse(contentOf(data))
             parsed == IF p.ok THEN p.v ELSE EmptyObj
         IN IF ~CanRead(parsed) THEN edgeCatch(st)
            ELSE LET captions == cutList(parsed, "captions", st.loc.N)
                     hashtags == cutList(parsed, "hashtags", st.loc.HN)
                 IN Respond(st, ResultBody("", combinedOf(parsed, captions, hashtags), captions, hashtags))

(* ------------- generate-captions.js, the timeout variant --------------- *)
timeoutStart(st, rq, e) ==
    IF rq.method = "OPTIONS" THEN Respond(st, Response(200, TRUE, "empty", "", "", Undef, <<>>, <<>>, <<>>))
    ELSE IF rq.method # "POST" THEN Respond(st, ErrorBody(405, "Method Not Allowed"))
    ELSE IF ~e.key THEN Respond(st, ErrorBody(500, "Missing OPENAI_API_KEY"))
    ELSE LET body == IF rq.body.t = "unparseable" THEN Obj(<<>>) ELSE rq.body
         IN IF ~CanRead(body) THEN Escape(st)
            ELSE LET N == clamp(2, 6, 6, Field(body, "count", Whole(8)))
                     HN == clamp(6, 12, 8, Field(body, "hashCount", Whole(8)))
                 IN [Fetch(st, [N |-> N, HN |-> HN,
                                product |-> Field(body, "product", Str(<<>>)),
                                audience |-> Field(body, "audience", Str(<<>>)),
                                benefits |-> Field(body, "benefits", Arr(<<>>)),
                                pains |-> Field(body, "pains", Arr(<<>>))],
                           [alts |-> N, hashtags |-> HN, model |-> DefaultModel])
                     EXCEPT !.timer = "armed"]

timeoutFallback(st, from, tape) ==
    [Respond(st, FallbackBody(fallbackGenerate(st.loc.product, st.loc.audience, st.loc.benefits,
                                               st.loc.pains, st.loc.N, st.loc.HN, tape), from))
     EXCEPT !.rnd = tape,
            !.pools = poolsAfter(@, termsOf(splitNonWord(String(st.loc.product), <<>>),
                                            splitNonWord(String(st.loc.audience), <<>>),
                                            asArr(st.loc.benefits), asArr(st.loc.pains)),
                                 st.loc.HN, tape, 2 * Floor(st.loc.N))]

\* clearTimeout(timer) of a timer that has not fired
clearTimeout(t) == IF t = "armed" THEN "cleared" ELSE t

timeoutHeaders(st, ok, tape) ==
    LET s1 == [st EXCEPT !.timer = clearTimeout(@), !.upstream.ok = ok]
    IN IF ok THEN [s1 EXCEPT !.pc = "body"] ELSE timeoutFallback(s1, "fallback", tape)

timeoutCatch(st, tape) == timeoutFallback([st EXCEPT !.timer = clearTimeout(@)], "fallback-timeout", tape)

timeoutBody(st, data, tape) ==
    IF data.k = "notjson" THEN timeoutCatch(st, tape)
    ELSE LET p == JSONparse(contentOf(data))
             parsed == IF p.ok THEN p.v ELSE EmptyObj
         IN IF ~CanRead(parsed) THEN timeoutCatch(st, tape)
            ELSE LET captions == cutList(parsed, "captions", st.loc.N)
                     hashtags == cutList(parsed, "hashtags", st.loc.HN)
                     combined == combinedOf(parsed, captions, hashtags)
                 IN IF captions = <<>> /\ ~Truthy(combined) THEN timeoutFallback(st, "fallback", tape)
                    ELSE Respond(st, ResultBody("openai-edge", combined, captions, hashtags))

(* ------------- generate-captions.js, the few-shot variant -------------- *)
MODEL_FALLBACK == "gpt-4o-mini"

\* process.env.OPENAI_MODEL || 'gpt-4o-mini'
MODEL_PRIMARY(e) == IF e.model # "" THEN e.model ELSE DefaultModel

normTag(t) == LET v == toLowerCase(trim(String(Or(t, Str(<<>>)))))
              IN IF v # <<>> /\ Head(v) = "#" THEN Tail(v) ELSE v

RECURSIVE dedupeLoop(_, _)
dedupeLoop(a, out) == IF a = <<>> THEN out
                      ELSE IF normTag(Head(a)) = <<>> \/ Contains(out, normTag(Head(a)))
                           THEN dedupeLoop(Tail(a), out)
                      ELSE dedupeLoop(Tail(a), Append(out, normTag(Head(a))))

\* What "for (const t of arr || [])" walks over; a number, a boolean or an
\* object is not iterable.
Iterable(arr) == ~Truthy(arr) \/ arr.t \in {"arr", "str"}

Items(arr) == IF ~Truthy(arr) THEN <<>>
              ELSE IF arr.t = "str" THEN [i \in 1..Len(arr.v) |-> Str(<<arr.v[i]>>)]
              ELSE arr.v

dedupeTags(arr) == dedupeLoop(Items(arr), <<>>)

fewCatch(st) == Respond(st, ErrorBody(500, "OpenAI request failed"))

fewStart(st, rq, e) ==
    IF rq.method = "OPTIONS" THEN Respond(st, NullBody(204))
    ELSE IF rq.method # "POST" THEN Respond(st, ErrorBody(405, "Use POST with JSON body."))
    ELSE IF ~e.key THEN Respond(st, ErrorBody(500, "Missing OPENAI_API_KEY env var"))
    ELSE LET body == IF rq.body.t = "unparseable" THEN Obj(<<>>) ELSE rq.body
         IN IF ~CanRead(body) THEN fewCatch(st)
            ELSE IF \E f \in {"benefits", "pains"} : Truthy(Get(body, f)) /\ Get(body, f).t # "arr"
                 THEN fewCatch(st)
            ELSE [Fetch(st, [NoLoc EXCEPT !.product = Get(body, "product"), !.audience = Get(body, "audience"),
                                          !.benefits = Get(body, "benefits"), !.pains = Get(body, "pains")],
                        [NoPrompt EXCEPT !.model = MODEL_PRIMARY(e)])
                  EXCEPT !.attempt = 1]

\* callOpenAI threw: the catch around the first call sends the request again
\* when MODEL_PRIMARY differs from MODEL_FALLBACK, and rethrows otherwise.
fewFail(st, e) ==
    IF st.attempt = 1 /\ MODEL_PRIMARY(e) # MODEL_FALLBACK
    THEN [st EXCEPT !.pc = "fetch", !.calls = @ + 1, !.attempt = 2, !.upstream = Idle]
    ELSE fewCatch(st)

fewHeaders(st, ok) == [st EXCEPT !.pc = IF ok THEN "body" ELSE "errtext", !.upstream.ok = ok]

fewFinish(st, content) ==
    LET parsed == safeParseJSON(content)
        captions == IF Get(parsed, "captions").t = "arr" THEN slice(Get(parsed, "captions").v, Whole(5)) ELSE <<>>
    IN IF ~Iterable(Get(parsed, "hashtags")) THEN fewCatch(st)
       ELSE LET hashtags == slice(dedupeTags(Get(parsed, "hashtags")), Whole(16))
                given == trim(String(Or(Get(parsed, "combined"), Str(<<>>))))
                body == IF captions # <<>> /\ Truthy(captions[1]) THEN String(captions[1])
                        ELSE <<"H", "e", "r", "e", "apostrophe", "s", " ", "t", "h", "e", " ", "g", "i", "s", "t", ".">>
                tagLine == IF hashtags # <<>>
                           THEN <<" ">> \o JoinStr([i \in 1..Len(hashtags) |-> <<"#">> \o hashtags[i]], <<" ">>)
                           ELSE <<>>
            IN Respond(st, ResultBody("", Str(IF given # <<>> THEN given ELSE body \o tagLine), captions,
                                      [i \in 1..Len(hashtags) |-> Str(hashtags[i])]))

fewBody(st, data, e) == IF data.k = "notjson" THEN fewFail(st, e) ELSE fewFinish(st, contentOf(data))

(* ----------------------------- part_000 -------------------------------- *)
p0Catch(st) == Respond(st, ErrorBody(500, "Server error"))

p0Start(st, rq, e) ==
    IF rq.method # "POST" THEN Respond(st, ErrorBody(405, "Use POST"))
    ELSE IF rq.body.t = "unparseable" THEN p0Catch(st)
    ELSE IF ~e.key THEN Respond(st, ErrorBody(500, "Missing OPENAI_API_KEY"))
    ELSE LET payload == Or(rq.body, Obj(<<>>))
         IN IF \E f \in {"pains", "benefits", "goals"} :
                   Truthy(Field(payload, f, Arr(<<>>))) /\ Field(payload, f, Arr(<<>>)).t # "arr"
            THEN p0Catch(st)
            ELSE Fetch(st, [NoLoc EXCEPT !.product = Field(payload, "product", Str(<<>>)),
                                         !.benefits = Field(payload, "benefits", Arr(<<>>)),
                                         !.pains = Field(payload, "pains", Arr(<<>>))],
                       [NoPrompt EXCEPT !.model = DefaultModel])

p0Headers(st, ok) == [st EXCEPT !.pc = IF ok THEN "body" ELSE "errtext", !.upstream.ok = ok]

p0ErrText(st, read) == IF read THEN Respond(st, ErrorBody(500, "Upstream error")) ELSE p0Catch(st)

removeWs(s) == SelectSeq(s, LAMBDA c : ~IsWs(c))

p0Body(st, data) ==
    IF data.k = "notjson" THEN p0Catch(st)
    ELSE LET p == IF data.k = "null" THEN Threw
                  ELSE JSONparse(IF data.k = "content" /\ data.text # <<>> THEN data.text ELSE <<LB, RB>>)
             parsed == IF p.ok THEN p.v ELSE Obj(With(With(NoFields, "captions", Arr(<<>>)), "hashtags", Arr(<<>>)))
             caps == IF CanRead(parsed) /\ Get(parsed, "captions").t = "arr" THEN Get(parsed, "captions").v ELSE <<>>
             tags == IF CanRead(parsed) /\ Get(parsed, "hashtags").t = "arr" THEN Get(parsed, "hashtags").v ELSE <<>>
         IN IF ~CanRead(parsed) THEN p0Catch(st)
            ELSE IF \E i \in 1..Len(caps) : Truthy(caps[i]) /\ caps[i].t # "str" THEN p0Catch(st)
            ELSE IF \E i \in 1..Len(tags) : tags[i].t # "str" THEN p0Catch(st)
            ELSE Respond(st, ResultBody("",
                     Undef,
                     filterBoolean([i \in 1..Len(caps) |-> Str(trim(String(Or(caps[i], Str(<<>>)))))]),
                     filterBoolean([i \in 1..Len(tags) |-> Str(trim(removeWs(tags[i].v)))])))

(* ----------------------------- part_001 -------------------------------- *)
\* p1Start with the test of req.method forgotten
p1StartAnyMethod(st, rq, e) ==
    IF ~e.key THEN Respond(st, ErrorBody(500, "Missing OPENAI_API_KEY"))
    ELSE LET got == IF rq.body.t = "unparseable" THEN Null ELSE rq.body
             body == Or(got, Obj(<<>>))
             banned == Field(body, "banned", Arr(<<>>))
         IN IF banned.t # "arr" THEN Escape(st)
            ELSE Fetch(st, [NoLoc EXCEPT !.product = Field(body, "product", Str(<<>>)),
                                         !.audience = Field(body, "audience", Str(<<>>))],
                       [NoPrompt EXCEPT !.model = DefaultModel])

p1Start(st, rq, e) ==
    IF rq.method # "POST" THEN Respond(st, ErrorBody(405, "Use POST"))
    ELSE IF ~e.key THEN Respond(st, ErrorBody(500, "Missing OPENAI_API_KEY"))
    ELSE LET got == IF rq.body.t = "unparseable" THEN Null ELSE rq.body
             body == Or(got, Obj(<<>>))
             banned == Field(body, "banned", Arr(<<>>))
         IN IF banned.t # "arr" THEN Escape(st)
            ELSE Fetch(st, [NoLoc EXCEPT !.product = Field(body, "product", Str(<<>>)),
                                         !.audience = Field(body, "audience", Str(<<>>))],
                       [NoPrompt EXCEPT !.model = DefaultModel])

p1Headers(st, ok) == [st EXCEPT !.pc = "body", !.upstream.ok = ok]

p1Catch(st) == Respond(st, ErrorBody(500, "AI error"))

ListBody(list) == Response(200, TRUE, "list", "", "", Undef, <<>>, <<>>, list)

RECURSIVE keepHashWord(_)
\* .map(String).filter(h => /^#\w/.test(h))
keepHashWord(a) ==
    IF a = <<>> THEN <<>>
    ELSE LET h == String(Head(a)) IN
         IF Len(h) > 1 /\ h[1] = "#" /\ IsWordChar(h[2]) THEN <<h>> \o keepHashWord(Tail(a))
         ELSE keepHashWord(Tail(a))

sanitizeItem(it) ==
    [caption |-> trim(String(Or(Get(it, "caption"), Str(<<>>)))),
     hashtags |-> IF Get(it, "hashtags").t = "arr" THEN keepHashWord(Get(it, "hashtags").v) ELSE <<>>]

RECURSIVE withCaption(_)
withCaption(l) == IF l = <<>> THEN <<>>
                  ELSE IF Head(l).caption # <<>> THEN <<Head(l)>> \o withCaption(Tail(l))
                  ELSE withCaption(Tail(l))

p1Body(st, data) ==
    IF data.k = "notjson" THEN p1Catch(st)
    ELSE LET raw == IF data.k = "content" THEN data.text ELSE <<>>
             parsed == rescueJSON(raw)
             list == Get(parsed, "list")
         IN IF list.t = "arr"
            THEN IF \E i \in 1..Len(list.v) : ~CanRead(list.v[i]) THEN p1Catch(st)
                 ELSE Respond(st, ListBody(withCaption([i \in 1..Len(list.v) |-> sanitizeItem(list.v[i])])))
            ELSE Respond(st, ListBody(<<>>))

(* ------------------------------- inputs -------------------------------- *)
\* OPENAI_API_KEY set or not, and OPENAI_MODEL ("" when unset)
Envs == [key : BOOLEAN, model : {"", "gpt-4o"}]

\* count and hashCount of the body: absent, zero, negative, fractional, in range,
\* above the range, not numeric, a boolean, a numeric string, null
CountInputs == { <<Undef, Undef>>, <<Whole(0), Whole(0)>>, <<Whole(0 - 1), Whole(0 - 7)>>,
                 <<Num(2 * Den + 1), Num(7 * Den + 1)>>, <<Whole(3), Whole(12)>>,
                 <<Whole(100), Whole(99)>>, <<Str(<<"a", "b", "c">>), Str(<<"x">>)>>,
                 <<Bool(TRUE), Bool(FALSE)>>, <<Str(<<"4">>), Str(<<"1", "0">>)>>, <<Null, Undef>>,
                 <<Whole(5), Whole(9)>> }

Briefs == {
    [product |-> Undef, audience |-> Undef, benefits |-> Undef, pains |-> Undef, banned |-> Undef],
    [product |-> Str(<<"S", "k", "i", "n", " ", "&", " ", "s", "e", "r", "u", "m">>), audience |-> Str(<<"t", "e", "e", "n", "s">>),
     benefits |-> Arr(<<Str(<<"f", "a", "s", "t", " ", "g", "l", "o", "w">>)>>), pains |-> Arr(<<Str(<<"d", "r", "y", " ", "s", "k", "i", "n">>)>>),
     banned |-> Arr(<<Str(<<"n", "s", "f", "w">>)>>)],
    [product |-> Whole(5), audience |-> Null, benefits |-> Str(<<"f", "a", "s", "t">>), pains |-> Null,
     banned |-> Str(<<"n", "s", "f", "w">>)] }

\* What req.json() gives: it rejects (unparseable), or the body is null, a number
\* or an object.
Bodies == {[t |-> "unparseable"], Null, Whole(5)} \cup
          {Obj([count |-> c[1], hashCount |-> c[2], product |-> b.product, audience |-> b.audience,
                benefits |-> b.benefits, pains |-> b.pains, banned |-> b.banned]) :
           c \in CountInputs, b \in Briefs}

Requests == [method : {"POST", "OPTIONS", "GET", "DELETE"}, body : Bodies]

Letters == <<"a", "b", "c", "d", "e", "f", "g", "h", "i", "j", "k", "l", "m", "n", "o", "p", "q", "r", "s", "t">>

Captions(n) == Arr([i \in 1..n |-> Str(<<Letters[i]>>)])

Tags(n) == Arr([i \in 1..n |-> Str(<<"#", Letters[i]>>)])

Fields(c, h, m) == With(With(With(NoFields, "captions", c), "hashtags", h), "combined", m)

ModelOutputs == {
    Fields(Captions(5), Tags(20), Undef),
    Fields(Captions(1), Arr(<<Str(<<"#", "x">>), Str(<<"#", "X">>)>>), Undef),
    Fields(Captions(1), Arr(<<Str(<<"#", "x">>)>>), Str(<<" ", "h", "i", " ">>)),
    Fields(Undef, Arr(<<Str(<<"#", "x">>)>>), Undef),
    Fields(Undef, Undef, Str(<<"h", "i">>)),
    Fields(Arr(<<Whole(5), Null, Str(<<"a">>)>>), Arr(<<Whole(5)>>), Undef),
    Fields(Str(<<"a", "b", "c">>), Whole(5), Undef),
    Fields(Captions(1), Arr(<<Str(<<"n", "s", "f", "w">>), Str(<<"#", "o", "k">>)>>), Undef),
    Fields(Arr(<<Str(<<>>), Str(<<"a">>)>>), Arr(<<>>), Undef),
    Fields(Captions(1), Undef, Whole(5)),
    Fields(Captions(1), Arr(<<Str(<<"#", " ", "x">>), Str(<<"#", "#", "y">>), Str(<<" ", "Z", " ">>), Str(<<"z">>)>>), Undef),
    With(NoFields, "list", Arr(<<Obj([caption |-> Str(<<" ", "a", " ">>), hashtags |-> Arr(<<Str(<<"#", "x">>), Str(<<"y">>)>>)]),
                                 Obj([caption |-> Str(<<>>), hashtags |-> Undef])>>)),
    With(NoFields, "list", Arr(<<Null>>)) }

Wrapped == Members(Fields(Captions(1), Arr(<<Str(<<"#", "x">>), Str(<<"#", "x">>)>>), Undef))

Contents == {<<LB, Members(o), RB>> : o \in ModelOutputs} \cup
            { <<LB, RB>>, <<PROSE>>, <<Value(Null)>>, <<Value(Whole(5))>>, <<Value(Captions(1))>>,
              <<PROSE, WS, LB, Wrapped, RB>>,
              <<LB, Wrapped, RB, WS, PROSE>>,
              <<FENCE, JSONWORD, WS, LB, Wrapped, RB, WS, FENCE>> }

\* What resp.json() gives: it rejects, or the body is null, has no choices, or
\* carries a completion text.
DataSet == {[k |-> "notjson", text |-> <<>>], [k |-> "null", text |-> <<>>], [k |-> "nochoices", text |-> <<>>]}
           \cup {[k |-> "content", text |-> c] : c \in Contents}

\* The streams Math.random() may give; only the timeout variant draws from one.
Tapes == IF variant = "timeout" THEN {<<0>>, <<99>>, <<34, 50, 10, 70, 90>>} ELSE {<<0>>}

\* What surrounds the object of a completion text: up to MaxAffix runs of
\* prose, white space, code fences and the word json.
Affixes == UNION {[1..n -> {PROSE, WS, FENCE, JSONWORD}] : n \in 0..MaxAffix}

\* Completion texts in which one complete JSON object is embedded.
Texts == {pre \o <<LB, Wrapped, RB>> \o post : pre \in Affixes, post \in Affixes}

NotRun == [t |-> "notrun"]

(* ---------------------------- state machine ---------------------------- *)
Init == /\ variant \in {"edge", "fewshot", "timeout", "part000", "part001"}
        /\ env \in Envs
        /\ req \in Requests
        /\ pc = "recv"
        /\ calls = 0
        /\ attempt = 0
        /\ timer = "none"
        /\ aborted = FALSE
        /\ elapsed = 0
        /\ loc = NoLoc
        /\ prompt = NoPrompt
        /\ upstream = Idle
        /\ response = NoResponse
        /\ rnd = <<>>
        /\ text = <<>>
        /\ parsedSafe = NotRun
        /\ parsedRescue = NotRun
        /\ pools = [BROAD |-> BROAD, MID |-> MID, CAT |-> CAT]
        /\ invs = <<>>

Apply(o) == /\ pc' = o.pc
            /\ calls' = o.calls
            /\ attempt' = o.attempt
            /\ timer' = o.timer
            /\ loc' = o.loc
            /\ prompt' = o.prompt
            /\ upstream' = o.upstream
            /\ response' = o.response
            /\ rnd' = o.rnd
            /\ pools' = o.pools
            /\ UNCHANGED <<variant, env, req, aborted, elapsed, pvars, invs>>

ReceiveEdge == variant = "edge" /\ pc = "recv" /\ Apply(edgeStart(St, req, env))

ReceiveFewshot == variant = "fewshot" /\ pc = "recv" /\ Apply(fewStart(St, req, env))

ReceiveTimeout == variant = "timeout" /\ pc = "recv" /\ Apply(timeoutStart(St, req, env))

ReceivePart000 == variant = "part000" /\ pc = "recv" /\ Apply(p0Start(St, req, env))

ReceivePart001 == variant = "part001" /\ pc = "recv" /\ Apply(p1Start(St, req, env))

onHeaders(st, ok, tape) == CASE variant = "edge" -> edgeHeaders(st, ok)
                             [] variant = "fewshot" -> fewHeaders(st, ok)
                             [] variant = "timeout" -> timeoutHeaders(st, ok, tape)
                             [] variant = "part000" -> p0Headers(st, ok)
                             [] variant = "part001" -> p1Headers(st, ok)

\* the fetch promise resolves: the status line and headers have arrived
FetchResolve == /\ pc = "fetch"
                /\ ~aborted
                /\ \E ok \in BOOLEAN, tape \in Tapes : Apply(onHeaders(St, ok, tape))

onReject(st, tape) == CASE variant = "edge" -> edgeCatch(st)
                        [] variant = "fewshot" -> fewFail(st, env)
                        [] variant = "timeout" -> timeoutCatch(st, tape)
                        [] variant = "part000" -> p0Catch(st)
                        [] variant = "part001" -> p1Catch(st)

\* the fetch promise rejects: a network error, or the abort of the signal
FetchReject == /\ pc = "fetch"
               /\ \E tape \in Tapes : Apply(onReject(St, tape))

onErrText(st, read) == CASE variant = "edge" -> edgeErrText(st)
                         [] variant = "fewshot" -> fewFail(st, env)
                         [] variant = "part000" -> p0ErrText(st, read)

\* resp.text() of a non-2xx response settles
ErrText == /\ pc = "errtext"
           /\ \E read \in BOOLEAN : Apply(onErrText(St, read))

onBody(st, data, tape) == CASE variant = "edge" -> edgeBody(st, data)
                            [] variant = "fewshot" -> fewBody(st, data, env)
                            [] variant = "timeout" -> timeoutBody(st, data, tape)
                            [] variant = "part000" -> p0Body(st, data)
                            [] variant = "part001" -> p1Body(st, data)

\* resp.json() settles
Body == /\ pc = "body"
        /\ \E data \in DataSet, tape \in Tapes :
              Apply(onBody([St EXCEPT !.upstream.data = data], data, tape))

\* setTimeout(() => controller.abort("timeout"), OPENAI_TIMEOUT_MS) comes due
TimerFire == /\ timer = "armed"
             /\ elapsed >= OPENAI_TIMEOUT_MS
             /\ timer' = "fired"
             /\ aborted' = TRUE
             /\ UNCHANGED <<variant, env, req, pc, calls, attempt, elapsed, loc, prompt, upstream,
                            response, rnd, pvars, cvars>>

\* Time passes while the handler awaits; a due timer runs before more passes.
Tick == /\ pc \in {"fetch", "body"}
        /\ timer # "none"
        /\ elapsed < MaxElapsed
        /\ timer = "armed" => elapsed < OPENAI_TIMEOUT_MS
        /\ elapsed' = elapsed + TickMs
        /\ UNCHANGED <<variant, env, req, pc, calls, attempt, timer, aborted, loc, prompt, upstream,
                       response, rnd, pvars, cvars>>

Next == \/ ReceiveEdge
        \/ ReceiveFewshot
        \/ ReceiveTimeout
        \/ ReceivePart000
        \/ ReceivePart001
        \/ FetchResolve
        \/ FetchReject
        \/ ErrText
        \/ Body
        \/ TimerFire
        \/ Tick

Spec == Init /\ [][Next]_vars

(* ----------------------- the two parsers alone ------------------------- *)
\* safeParseJSON and rescueJSON are pure: each is applied once to a completion
\* text in which one object is embedded; no request is in progress.
ParseInit == /\ text \in Texts
             /\ parsedSafe = NotRun
             /\ parsedRescue = NotRun
             /\ variant = "fewshot"
             /\ env = [key |-> TRUE, model |-> ""]
             /\ req = [method |-> "POST", body |-> Null]
             /\ pc = "parse"
             /\ calls = 0
             /\ attempt = 0
             /\ timer = "none"
             /\ aborted = FALSE
             /\ elapsed = 0
             /\ loc = NoLoc
             /\ prompt = NoPrompt
             /\ upstream = Idle
             /\ response = NoResponse
             /\ rnd = <<>>
             /\ pools = [BROAD |-> BROAD, MID |-> MID, CAT |-> CAT]
             /\ invs = <<>>

ParseSafe == /\ parsedSafe = NotRun
             /\ parsedSafe' = safeParseJSON(text)
             /\ UNCHANGED <<hvars, text, parsedRescue, cvars>>

ParseRescue == /\ parsedRescue = NotRun
               /\ parsedRescue' = rescueJSON(text)
               /\ UNCHANGED <<hvars, text, parsedSafe, cvars>>

ParseNext == ParseSafe \/ ParseRescue

ParseSpec == ParseInit /\ [][ParseNext]_vars

(* ------------- invocations of the timeout handler side by side --------- *)
\* MaxRequests invocations of the timeout handler run in one process: each has
\* its own locals (those of St, with its request and the aborted flag of its
\* own controller's signal) and all share the module-level pools.  A step of
\* an invocation is the code of the handler between two awaits, run on the
\* pools as they are at that moment.
ConcInit == /\ pools = [BROAD |-> BROAD, MID |-> MID, CAT |-> CAT]
            /\ invs \in [1..MaxRequests ->
                         {[pc |-> "recv", calls |-> 0, attempt |-> 0, timer |-> "none", loc |-> NoLoc,
                           prompt |-> NoPrompt, upstream |-> Idle, response |-> NoResponse, rnd |-> <<>>,
                           pools |-> [BROAD |-> BROAD, MID |-> MID, CAT |-> CAT],
                           req |-> rq, aborted |-> FALSE] :
                          rq \in {x \in Requests : /\ x.method = "POST"
                                                   /\ x.body.t = "obj"
                                                   /\ Get(x.body, "count") = Whole(3)
                                                   /\ Get(x.body, "product").t = "str"}}]
            /\ variant = "timeout"
            /\ env = [key |-> TRUE, model |-> ""]
            /\ req = [method |-> "POST", body |-> Null]
            /\ pc = "conc"
            /\ calls = 0
            /\ attempt = 0
            /\ timer = "none"
            /\ aborted = FALSE
            /\ elapsed = 0
            /\ loc = NoLoc
            /\ prompt = NoPrompt
            /\ upstream = Idle
            /\ response = NoResponse
            /\ rnd = <<>>
            /\ text = <<>>
            /\ parsedSafe = NotRun
            /\ parsedRescue = NotRun

\* the handler is invoked with the request of invocation r
CReceive(r) == /\ invs[r].pc = "recv"
               /\ invs' = [invs EXCEPT ![r] = timeoutStart([@ EXCEPT !.pools = pools], @.req, env)]
               /\ pools' = invs'[r].pools
               /\ UNCHANGED <<hvars, pvars>>

\* the fetch of invocation r settles: it resolves with a 2xx or another status
\* unless its signal is aborted, or it rejects
CSettle(r) == /\ invs[r].pc = "fetch"
              /\ \E tape \in Tapes, how \in {"ok", "status", "reject"} :
                    /\ how # "reject" => ~invs[r].aborted
                    /\ invs' = [invs EXCEPT ![r] = IF how = "reject"
                                                   THEN timeoutCatch([@ EXCEPT !.pools = pools], tape)
                                                   ELSE timeoutHeaders([@ EXCEPT !.pools = pools], how = "ok", tape)]
              /\ pools' = invs'[r].pools
              /\ UNCHANGED <<hvars, pvars>>

\* resp.json() of invocation r settles
CBody(r) == /\ invs[r].pc = "body"
            /\ \E tape \in Tapes,
                  data \in {d \in DataSet : d.k = "notjson" \/ d.text \in {<<LB, RB>>, <<LB, Members(Fields(Captions(5), Tags(20), Undef)), RB>>}} :
                  invs' = [invs EXCEPT ![r] = timeoutBody([@ EXCEPT !.pools = pools, !.upstream.data = data], data, tape)]
            /\ pools' = invs'[r].pools
            /\ UNCHANGED <<hvars, pvars>>

\* controller.abort() run by the timer of invocation r aborts the signal that
\* the fetch of invocation q holds: controller is a const of the invocation.
aborts(r, q) == r = q

\* the timer of invocation r comes due
CTimerFire(r) == /\ invs[r].timer = "armed"
                 /\ invs' = [q \in DOMAIN invs |->
                               [invs[q] EXCEPT !.timer = IF q = r THEN "fired" ELSE @,
                                               !.aborted = @ \/ aborts(r, q)]]
                 /\ UNCHANGED <<hvars, pvars, pools>>

ConcNext == \/ \E r \in DOMAIN invs : CReceive(r)
            \/ \E r \in DOMAIN invs : CSettle(r)
            \/ \E r \in DOMAIN invs : CBody(r)
            \/ \E r \in DOMAIN invs : CTimerFire(r)

ConcSpec == ConcInit /\ [][ConcNext]_vars

(* ------------------------------ the claims ----------------------------- *)
\* The upstream call returned 2xx and its body carried a completion text.
GotCompletion == upstream.ok /\ upstream.data.k = "content"

\* The parsed model output as the variant in hand parses it.
ParsedOutput ==
    IF variant = "fewshot" THEN safeParseJSON(contentOf(upstream.data))
    ELSE IF JSONparse(contentOf(upstream.data)).ok THEN JSONparse(contentOf(upstream.data)).v
    ELSE EmptyObj

NonEmptyStrings(j) == j.t = "arr" /\ \A i \in 1..Len(j.v) : j.v[i].t = "str" /\ j.v[i].v # <<>>

\* The completion is valid JSON matching the schema: captions and hashtags are
\* arrays of non-empty strings, combined is a string or absent.
GotSchemaValid ==
    /\ GotCompletion
    /\ JSONparse(upstream.data.text).ok
    /\ JSONparse(upstream.data.text).v.t = "obj"
    /\ NonEmptyStrings(Get(JSONparse(upstream.data.text).v, "captions"))
    /\ NonEmptyStrings(Get(JSONparse(upstream.data.text).v, "hashtags"))
    /\ Get(JSONparse(upstream.data.text).v, "combined").t \in {"undef", "str"}

\* The response carries the output of the Fallback Generator.
FromFallback == response.from \in {"fallback", "fallback-timeout"}

\* C1: no exception ever escapes a handler, and every request a handler has
\* finished ended in a response whose body is JSON (the answer to an OPTIONS
\* preflight, which two variants send without a body, is left aside).
C1_AlwaysJsonResponse == /\ pc # "threw"
                         /\ (pc = "done" /\ req.method # "OPTIONS") => response.json

\* C2: in the timeout variant, once the deadline OPENAI_TIMEOUT_MS has passed
\* while the response headers or the response body are still outstanding, the
\* in-flight call has been aborted.
C2_AbortedPastDeadline ==
    (variant = "timeout" /\ pc \in {"fetch", "body"} /\ elapsed > OPENAI_TIMEOUT_MS) => aborted

\* C3: a handler issues at most one upstream POST per request, whatever the
\* environment and the upstream outcome.
C3_AtMostOnePost == calls <= 1

\* C4: once the upstream call has returned 2xx with a completion text, whatever
\* its shape, the handler answers 200 with a result body and not with an error.
C4_NoErrorAfter2xx ==
    (pc = "done" /\ GotCompletion) => (response.status = 200 /\ response.kind \in {"result", "list"})

\* C5: for a completion text in which a complete JSON object is embedded in
\* leading text, trailing commentary or a code fence, safeParseJSON and
\* rescueJSON return the embedded object.
C5_EmbeddedObjectReturned ==
    /\ parsedSafe # NotRun => parsedSafe = Obj(Wrapped.v)
    /\ parsedRescue # NotRun => parsedRescue = Obj(Wrapped.v)

\* C6: for every count and hashCount of the request body, N lies in 2..8 (edge
\* variant) or 2..6 (timeout variant) and HN in 6..12, the prompt carries these
\* two values, and a response built from the model output has at most N
\* captions and HN hashtags.
C6_CountsClamped ==
    (variant \in {"edge", "timeout"} /\ calls > 0) =>
        /\ loc.N.t = "num" /\ loc.HN.t = "num"
        /\ 2 * Den <= loc.N.v
        /\ loc.N.v <= (IF variant = "edge" THEN 8 ELSE 6) * Den
        /\ 6 * Den <= loc.HN.v
        /\ loc.HN.v <= 12 * Den
        /\ prompt.alts = loc.N
        /\ prompt.hashtags = loc.HN
        /\ (pc = "done" /\ response.kind = "result" /\ ~FromFallback) =>
               /\ Len(response.captions) * Den <= loc.N.v
               /\ Len(response.hashtags) * Den <= loc.HN.v

\* a count above the range and a hashCount above the range, both clamped
C6_Witness == /\ variant = "timeout"
              /\ pc = "fetch"
              /\ Get(req.body, "count") = Whole(100)
              /\ Get(req.body, "hashCount") = Whole(99)
              /\ loc.N = Whole(6)
              /\ loc.HN = Whole(12)
              /\ prompt.alts = Whole(6)

FiveAndTwenty == <<LB, Members(Fields(Captions(5), Tags(20), Undef)), RB>>

\* C7: in the edge and timeout variants, for a completion that is valid JSON
\* matching the schema, the 200 response has at most N captions and at most HN
\* hashtags; count 3 and hashCount 12 with 5 captions and 20 hashtags from
\* upstream give exactly 3 captions and exactly 12 hashtags.
C7_CountsRespected ==
    (variant \in {"edge", "timeout"} /\ pc = "done" /\ response.status = 200 /\ GotSchemaValid) =>
        /\ Len(response.captions) * Den <= loc.N.v
        /\ Len(response.hashtags) * Den <= loc.HN.v
        /\ (/\ Get(req.body, "count") = Whole(3)
            /\ Get(req.body, "hashCount") = Whole(12)
            /\ upstream.data.text = FiveAndTwenty) =>
               /\ response.captions = SubSeq(Captions(5).v, 1, 3)
               /\ response.hashtags = SubSeq(Tags(20).v, 1, 12)

C7_Witness == /\ variant = "edge"
              /\ pc = "done"
              /\ response.status = 200
              /\ Get(req.body, "count") = Whole(3)
              /\ Get(req.body, "hashCount") = Whole(12)
              /\ GotSchemaValid
              /\ upstream.data.text = FiveAndTwenty
              /\ Len(response.captions) = 3
              /\ Len(response.hashtags) = 12

\* The banned-word set C8 speaks of, with the two words the spec gives as
\* examples; no handler holds such a set.
BannedWords == {<<"f", "o", "l", "l", "o", "w", "f", "o", "r", "f", "o", "l", "l", "o", "w">>,
                <<"n", "s", "f", "w">>}

\* a hashtag without its leading "#", lower-cased
TagWord(j) == IF String(j) # <<>> /\ Head(String(j)) = "#" THEN toLowerCase(Tail(String(j)))
              ELSE toLowerCase(String(j))

\* C8: for a completion that is valid JSON matching the schema, the hashtags of
\* the response hold no two entries that are equal case-insensitively and no
\* entry of the banned-word set.
C8_NoDuplicateOrBannedHashtags ==
    (pc = "done" /\ response.status = 200 /\ response.kind = "result" /\ GotSchemaValid) =>
        /\ \A i, j \in 1..Len(response.hashtags) :
              i # j => toLowerCase(String(response.hashtags[i])) # toLowerCase(String(response.hashtags[j]))
        /\ \A i \in 1..Len(response.hashtags) : TagWord(response.hashtags[i]) \notin BannedWords

\* The response was built from a model output (edge, few-shot or timeout variant).
BuiltFromOutput ==
    /\ variant \in {"edge", "fewshot", "timeout"}
    /\ pc = "done"
    /\ response.kind = "result"
    /\ ~FromFallback
    /\ upstream.ok
    /\ upstream.data.k \in {"null", "nochoices", "content"}

TagTexts == [i \in 1..Len(response.hashtags) |-> String(response.hashtags[i])]

\* C9 as written: when the parsed output has no combined (absent, empty or not a
\* string) and at least one caption, combined is the first caption, a newline,
\* and the hashtags of the response joined by single spaces.
C9_CombinedIsCaptionNewlineTags ==
    (/\ BuiltFromOutput
     /\ Get(ParsedOutput, "combined").t # "str" \/ Get(ParsedOutput, "combined").v = <<>>
     /\ response.captions # <<>>) =>
        response.combined = Str(String(response.captions[1]) \o <<"\n">> \o JoinStr(TagTexts, <<" ">>))

\* combined counts as absent: in the edge and timeout variants when it is not a
\* string or is blank, in the few-shot variant when it is falsy or its text is blank
CombinedAbsent ==
    IF variant = "fewshot"
    THEN trim(String(Or(Get(ParsedOutput, "combined"), Str(<<>>)))) = <<>>
    ELSE Get(ParsedOutput, "combined").t # "str" \/ trim(Get(ParsedOutput, "combined").v) = <<>>

\* C9 as amended: with combined absent and a first caption in the response
\* (few-shot: a truthy one), combined is, in the edge and timeout variants, the
\* first caption, a newline and the trimmed hashtags joined by single spaces, or
\* the first caption alone when no hashtag text remains; in the few-shot variant
\* the first caption and, when there are hashtags, a space and the hashtags each
\* with a leading "#" joined by single spaces.
C9_CombinedSynthesized ==
    (/\ BuiltFromOutput
     /\ CombinedAbsent
     /\ response.captions # <<>>
     /\ variant = "fewshot" => Truthy(response.captions[1])) =>
        IF variant = "fewshot"
        THEN response.combined =
                 Str(String(response.captions[1])
                     \o (IF TagTexts = <<>> THEN <<>>
                         ELSE <<" ">> \o JoinStr([i \in 1..Len(TagTexts) |-> <<"#">> \o TagTexts[i]], <<" ">>)))
        ELSE IF trim(JoinStr(TagTexts, <<" ">>)) = <<>>
             THEN response.combined = response.captions[1]
             ELSE response.combined =
                      Str(String(response.captions[1]) \o <<"\n">> \o trim(JoinStr(TagTexts, <<" ">>)))

\* the timeout variant answers 5 captions and 20 hashtags without combined
C9_Witness == /\ variant = "timeout"
              /\ BuiltFromOutput
              /\ CombinedAbsent
              /\ upstream.data.text = FiveAndTwenty
              /\ Len(response.captions) > 0
              /\ Len(response.hashtags) > 1
              /\ response.combined.t = "str"
              /\ \E i \in 1..Len(response.combined.v) : response.combined.v[i] = "\n"

HasText(j) == j.t = "arr" /\ \E i \in 1..Len(j.v) : Truthy(j.v[i])

\* The parsed output is entirely empty: no captions, no hashtags, no combined text.
EntirelyEmpty(o) == /\ ~HasText(Get(o, "captions"))
                    /\ ~HasText(Get(o, "hashtags"))
                    /\ Get(o, "combined").t = "str" => trim(Get(o, "combined").v) = <<>>

\* C10: in the timeout variant the Fallback Generator answers only when the
\* upstream call failed (non-2xx, network error, unreadable body), timed out, or
\* the parsed output is entirely empty.
C10_FallbackOnlyWhenEmpty ==
    (variant = "timeout" /\ pc = "done" /\ FromFallback) =>
        \/ ~upstream.ok
        \/ aborted
        \/ upstream.data.k = "notjson"
        \/ EntirelyEmpty(ParsedOutput)

\* C11: a POST that arrives while OPENAI_API_KEY is not configured is answered,
\* whatever its body, with 500 and an error naming the missing credential, and
\* no upstream call is made for it.
C11_MissingKeyAnswered ==
    (req.method = "POST" /\ ~env.key) =>
        /\ calls = 0
        /\ pc \in {"recv", "done"}
        /\ pc = "done" =>
               /\ response.status = 500
               /\ response.kind = "error"
               /\ response.error \in {"Missing OPENAI_API_KEY", "Missing OPENAI_API_KEY env var"}

\* C12: a request whose method is neither POST nor OPTIONS is answered with 405
\* by every handler, whatever the credential and the body, and no upstream call
\* is made for it.
C12_OtherMethodsGet405 ==
    (req.method \notin {"POST", "OPTIONS"}) =>
        /\ calls = 0
        /\ pc \in {"recv", "done"}
        /\ pc = "done" => (response.status = 405 /\ response.kind = "error" /\ response.json)

\* a GET with the key configured and a well-formed body, answered by part_001
C12_Witness == /\ variant = "part001"
               /\ req.method = "GET"
               /\ env.key
               /\ req.body.t = "obj"
               /\ pc = "done"
               /\ response.status = 405
               /\ calls = 0

\* C13: whatever the brief, the clamped N and HN and the random choices, the
\* Fallback Generator returns (nothing is thrown, no call is added) exactly N
\* captions, at most HN hashtags that are pairwise distinct, and combined equal
\* to the first caption, a newline and the hashtags joined by spaces.
C13_FallbackShape ==
    (variant = "timeout" /\ FromFallback) =>
        /\ pc = "done"
        /\ calls <= 1
        /\ Len(response.captions) * Den = loc.N.v
        /\ Len(response.hashtags) * Den <= loc.HN.v
        /\ \A i, j \in 1..Len(response.hashtags) :
               response.hashtags[i] = response.hashtags[j] => i = j
        /\ response.combined =
               Str(response.captions[1].v \o <<"\n">> \o JoinStr(TagTexts, <<" ">>))

\* the model text: Sure! Here you go: {"captions":["a"],"hashtags":["#x","#x"]}
ProseThenObject == <<PROSE, WS, LB, Wrapped, RB>>

\* C14: every hashtag the few-shot handler returns, which is what dedupeTags
\* made of the list in the model output, is trimmed, lower case, not empty and
\* without a leading '#', no hashtag appears twice, and dedupeTags applied to
\* the returned list gives that list again; for the model text of ProseThenObject
\* the response has captions ["a"] and hashtags ["x"].
C14_DedupeNormalizes ==
    (variant = "fewshot" /\ pc = "done" /\ response.kind = "result") =>
        /\ \A i \in 1..Len(response.hashtags) :
               /\ response.hashtags[i].v # <<>>
               /\ trim(response.hashtags[i].v) = response.hashtags[i].v
               /\ toLowerCase(response.hashtags[i].v) = response.hashtags[i].v
               /\ Head(response.hashtags[i].v) # "#"
        /\ \A i, j \in 1..Len(response.hashtags) :
               response.hashtags[i] = response.hashtags[j] => i = j
        /\ dedupeTags(Arr(response.hashtags)) = [i \in 1..Len(response.hashtags) |-> response.hashtags[i].v]
        /\ (upstream.ok /\ upstream.data.text = ProseThenObject) =>
               /\ response.captions = <<Str(<<"a">>)>>
               /\ response.hashtags = <<Str(<<"x">>)>>

\* C15: after any sequence or interleaving of invocations of the timeout
\* handler, those answered by the Fallback Generator included, BROAD, MID and
\* CAT hold what they held at the start; and the signal of an invocation is
\* aborted only by that invocation's own timer, so the timeout of one request
\* does not reach another.
C15_PoolsAndControllersPrivate ==
    /\ pools = [BROAD |-> BROAD, MID |-> MID, CAT |-> CAT]
    /\ \A r \in DOMAIN invs : invs[r].aborted => invs[r].timer = "fired"

\* one invocation timed out and was answered by the Fallback Generator, and
\* another beside it was answered from the model output with its signal intact
C15_Witness ==
    \E r, q \in DOMAIN invs :
        /\ r # q
        /\ invs[r].pc = "done"
        /\ invs[r].aborted
        /\ invs[r].response.from = "fallback-timeout"
        /\ Len(invs[r].response.hashtags) > 0
        /\ invs[q].pc = "done"
        /\ ~invs[q].aborted
        /\ invs[q].response.from = "openai-edge"

====
